---- MODULE Spec2Model ----
(***************************************************************************)
(* Model of the Amsgrad optimizer of src/Amsgrad.py (an MLX optimizer).    *)
(*                                                                         *)
(* Numbers.  The code computes in floating point.  The model computes in   *)
(* decimal fixed point with three fractional digits: the integer X stands  *)
(* for the number X / One, and every product and quotient is truncated to  *)
(* that resolution (finite precision, as in the code, only coarser).       *)
(* Tensors are flattened to sequences of such numbers; a tensor's shape is *)
(* its length, and binary operations broadcast as MLX does (equal shapes,  *)
(* or one operand of a single element).                                    *)
(***************************************************************************)
EXTENDS Integers, Sequences, FiniteSets

VARIABLES
    beta_decay,     \* self.beta_decay
    schedule,       \* the learning_rate argument: a constant or a callable
    learning_rate,  \* self.learning_rate: the value currently stored
    step,           \* the optimizer's global step, the schedule's argument
    parameters,     \* the training loop's parameters: key -> tensor
    state,          \* the per-parameter state dicts: key -> [m, v, v_hat, t]
    pc,             \* key -> "idle" | "loaded": position of a call in progress
    locals,         \* key -> the local variables of the call in progress
    trace,          \* history: key -> the completed apply_single calls
    raised          \* history: the calls that raised, in order

vars == <<beta_decay, schedule, learning_rate, step, parameters, state,
          pc, locals, trace, raised>>

----------------------------------------------------------------------------
(* Bounds of the model.                                                    *)

MaxCalls == 2
MaxStep == 2
MaxParCalls == 2

----------------------------------------------------------------------------
(* Fixed-point scalars.                                                    *)

\* The number 1.0.
One == 10 * 10 * 10

\* betas = [0.9, 0.999], the constructor's default.
Beta1 == 900
Beta2 == 999
\* eps = 0.001: the constructor's eps argument, here the smallest positive
\* number of the resolution (the default 1e-6 lies below it).
Eps == 1
\* learning_rate = 0.1: the constructor's learning_rate argument when it is a
\* constant, and the base value of the callable policies.
BaseLr == 100

Mul(a, b) == (a * b) \div One
Div(a, b) == (a * One) \div b
DivInt(a, n) == a \div n

RECURSIVE ISqrtIn(_, _, _)
ISqrtIn(n, lo, hi) ==
    IF lo >= hi THEN lo
    ELSE LET mid == (lo + hi + 1) \div 2
         IN  IF mid * mid <= n THEN ISqrtIn(n, mid, hi)
                               ELSE ISqrtIn(n, lo, mid - 1)

SqrtScalar(a) == LET n == a * One IN ISqrtIn(n, 0, IF n < 46340 THEN n ELSE 46340)

MaxScalar(a, b) == IF a >= b THEN a ELSE b

----------------------------------------------------------------------------
(* Tensors, with MLX broadcasting.                                         *)

Compatible(a, b) == Len(a) = Len(b) \/ Len(a) = 1 \/ Len(b) = 1
BLen(a, b) == IF Len(a) >= Len(b) THEN Len(a) ELSE Len(b)
At(a, i) == IF Len(a) = 1 THEN a[1] ELSE a[i]

OnesLike(x) == [i \in 1..Len(x) |-> One]
\* mx.zeros_like
ZerosLike(x) == [i \in 1..Len(x) |-> 0]
Scale(c, a) == [i \in 1..Len(a) |-> Mul(c, a[i])]
Square(a) == [i \in 1..Len(a) |-> Mul(a[i], a[i])]
Sqrt(a) == [i \in 1..Len(a) |-> SqrtScalar(a[i])]
AddScalar(a, c) == [i \in 1..Len(a) |-> a[i] + c]
Add(a, b) == [i \in 1..BLen(a, b) |-> At(a, i) + At(b, i)]
Sub(a, b) == [i \in 1..BLen(a, b) |-> At(a, i) - At(b, i)]
Divide(a, b) == [i \in 1..BLen(a, b) |-> Div(At(a, i), At(b, i))]
Maximum(a, b) == [i \in 1..BLen(a, b) |-> MaxScalar(At(a, i), At(b, i))]

----------------------------------------------------------------------------
(* Hyperparameters and the learning-rate policy.                           *)

Schedules == {"constant", "decay", "warmup"}

\* The learning-rate policy evaluated at global step n: the constant, a
\* decaying callable lr(n) = BaseLr / (n + 1), or a linear warm-up
\* lr(n) = (BaseLr / 2) * (n + 1).
LrAt(s, n) ==
    CASE s = "constant" -> BaseLr
      [] s = "decay"    -> DivInt(BaseLr, n + 1)
      [] s = "warmup"   -> DivInt(BaseLr, 2) * (n + 1)

----------------------------------------------------------------------------
(* The update rule of apply_single, line by line.                          *)

B1EffPost(b1, t, decay) == IF decay THEN DivInt(b1, t + 1) ELSE b1
B1EffGlobal(b1, t, decay) == IF decay THEN DivInt(b1, step + 1) ELSE b1
\* if self.beta_decay: b1 = b1 / t
B1Eff(b1, t, decay) == IF decay THEN DivInt(b1, t) ELSE b1

\* m = b1 * m + (1 - b1) * gradient
MNext(b1, m, g) == Add(Scale(b1, m), Scale(One - b1, g))

\* v = b2 * v + (1 - b2) * mx.square(gradient)
VNext(b2, v, g) == Add(Scale(b2, v), Scale(One - b2, Square(g)))

VHatNoMax(v_hat, v) == v
VHatKept(v_hat, v) == v_hat
\* v_hat = mx.maximum(v_hat, v)
VHatNext(v_hat, v) == Maximum(v_hat, v)

TNextSkip(t) == t + 2
\* state["t"] = t + 1
TNext(t) == t + 1

\* mx.sqrt(v_hat) + eps
Denominator(v_hat) == AddScalar(Sqrt(v_hat), Eps)

\* parameter - lr * (m / (mx.sqrt(v_hat) + eps))
NewParameter(param, lr, m, v_hat) ==
    Sub(param, Scale(lr, Divide(m, Denominator(v_hat))))

\* The first statement that combines the state with the gradient (line 68)
\* raises when their shapes cannot be broadcast together.
Raises(g, st) == ~Compatible(st.m, g)

ApplyResultStale(g, param, st, lr, decay) ==
    LET b1    == B1Eff(Beta1, st.t, decay)
        m     == MNext(b1, st.m, g)
        v     == VNext(Beta2, st.v, g)
        v_hat == VHatNext(st.v_hat, v)
    IN  [b1 |-> b1, m |-> m, v |-> v, v_hat |-> v_hat, t |-> TNext(st.t),
         denom |-> Denominator(st.v_hat),
         ret |-> NewParameter(param, lr, st.m, st.v_hat)]
ApplyResultAdam(g, param, st, lr, decay) ==
    LET b1    == B1Eff(Beta1, st.t, decay)
        m     == MNext(b1, st.m, g)
        v     == VNext(Beta2, st.v, g)
        v_hat == VHatNext(st.v_hat, v)
    IN  [b1 |-> b1, m |-> m, v |-> v, v_hat |-> v_hat, t |-> TNext(st.t),
         denom |-> Denominator(v),
         ret |-> NewParameter(param, lr, m, v)]
\* The values a call of apply_single that does not raise computes from its
\* inputs: the effective beta1, the new state fields, the denominator of the
\* update and the returned parameter.
ApplyResult(g, param, st, lr, decay) ==
    LET b1    == B1Eff(Beta1, st.t, decay)
        m     == MNext(b1, st.m, g)
        v     == VNext(Beta2, st.v, g)
        v_hat == VHatNext(st.v_hat, v)
    IN  [b1 |-> b1, m |-> m, v |-> v, v_hat |-> v_hat, t |-> TNext(st.t),
         denom |-> Denominator(v_hat),
         ret |-> NewParameter(param, lr, m, v_hat)]

StateOf(r) == [m |-> r.m, v |-> r.v, v_hat |-> r.v_hat, t |-> r.t]

StoreSharedT(st, p, new) ==
    [k \in DOMAIN st |-> IF k = p THEN new ELSE [st[k] EXCEPT !.t = new.t]]
\* state["m"] = m; state["v"] = v; state["v_hat"] = v_hat; state["t"] = t + 1
\* on the state dict of the parameter the call was given.
StoreState(st, p, new) == [k \in DOMAIN st |-> IF k = p THEN new ELSE st[k]]

\* The history entry of a completed call.
CallRecord(g, param, st, lr, r) ==
    [gradient |-> g, parameter |-> param, pre |-> st, lr |-> lr, b1 |-> r.b1,
     post |-> StateOf(r), ret |-> r.ret, denom |-> r.denom,
     stepsize |-> [i \in 1..Len(r.denom) |-> Div(lr, r.denom[i])],
     step |-> step]

----------------------------------------------------------------------------
(* Inputs.                                                                 *)

\* Gradients the differentiation engine may supply: of one, two and three
\* elements, zero and non-zero, of both signs.
Gradients ==
    {<<0>>, <<2000>>, <<0, 0>>, <<2000, -1000>>, <<2000, 0, -2000>>}

ParGradients == {<<0>>, <<2000>>}

\* The parameter collections of the training loop.
Models == {[k \in {"w"} |-> <<1000>>], [k \in {"w"} |-> <<1000, -500>>]}
ParModels == {[k \in {"w", "b"} |-> <<1000>>]}

----------------------------------------------------------------------------
(* State after construction (__init__), for a given parameter collection. *)

InitWith(models) ==
    /\ beta_decay \in BOOLEAN
    /\ schedule \in Schedules
    /\ step = 0
    /\ learning_rate = LrAt(schedule, 0)
    /\ parameters \in models
    /\ state = [k \in {} |-> 0]
    /\ pc = [k \in DOMAIN parameters |-> "idle"]
    /\ locals = [k \in DOMAIN parameters |-> <<>>]
    /\ trace = [k \in DOMAIN parameters |-> <<>>]
    /\ raised = {}

Init == InitWith(Models)
InitPar == InitWith(ParModels)

Idle == \A k \in DOMAIN pc : pc[k] = "idle"

----------------------------------------------------------------------------
(* Operations.                                                             *)

\* init_single: the state of a parameter is created once, when the
\* parameter is first seen.
init_single(p) ==
    /\ p \in DOMAIN parameters
    /\ p \notin DOMAIN state
    /\ state' = [k \in DOMAIN state \cup {p} |->
                    IF k = p
                    THEN [m     |-> ZerosLike(parameters[p]),
                          v     |-> ZerosLike(parameters[p]),
                          v_hat |-> ZerosLike(parameters[p]),
                          t     |-> 1]
                    ELSE state[k]]
    /\ UNCHANGED <<beta_decay, schedule, learning_rate, step, parameters,
                   pc, locals, trace, raised>>

\* self.learning_rate is a stored value (set through _maybe_schedule, line
\* 41, read at line 56).  With a callable policy the Optimizer base class
\* re-evaluates it at the global step, which then advances, before the
\* updates of a training step; with a constant it stays as constructed.
UpdateSchedule ==
    /\ Idle
    /\ step < MaxStep
    /\ learning_rate' = LrAt(schedule, step)
    /\ step' = step + 1
    /\ UNCHANGED <<beta_decay, schedule, parameters, state, pc, locals,
                   trace, raised>>

\* apply_single(gradient, parameter, state) as one step; the training loop
\* replaces the parameter by the value returned.
apply_single(p, g) ==
    /\ p \in DOMAIN state
    /\ pc[p] = "idle"
    /\ Len(trace[p]) < MaxCalls
    /\ IF Raises(g, state[p])
       THEN /\ raised' = raised \cup
                    {[key |-> p, gradient |-> g, parameter |-> parameters[p]]}
            /\ UNCHANGED <<parameters, state, trace>>
       ELSE LET r == ApplyResult(g, parameters[p], state[p], learning_rate,
                                 beta_decay)
            IN  /\ state' = StoreState(state, p, StateOf(r))
                /\ parameters' = [parameters EXCEPT ![p] = r.ret]
                /\ trace' = [trace EXCEPT ![p] =
                       Append(@, CallRecord(g, parameters[p], state[p],
                                            learning_rate, r))]
                /\ UNCHANGED raised
    /\ UNCHANGED <<beta_decay, schedule, learning_rate, step, pc, locals>>

\* apply_single up to its reads (lines 56-63): the learning rate and the
\* state fields are loaded into local variables.
apply_begin(p, g) ==
    /\ p \in DOMAIN state
    /\ pc[p] = "idle"
    /\ Len(trace[p]) < MaxParCalls
    /\ locals' = [locals EXCEPT ![p] =
           <<[lr |-> learning_rate, m |-> state[p].m, v |-> state[p].v,
              v_hat |-> state[p].v_hat, t |-> state[p].t,
              gradient |-> g, parameter |-> parameters[p]]>>]
    /\ pc' = [pc EXCEPT ![p] = "loaded"]
    /\ UNCHANGED <<beta_decay, schedule, learning_rate, step, parameters,
                   state, trace, raised>>

\* apply_single from its first computation to its return (lines 65-78),
\* working on the local variables loaded before.
apply_finish(p) ==
    /\ p \in DOMAIN state
    /\ pc[p] = "loaded"
    /\ LET l  == locals[p][1]
           st == [m |-> l.m, v |-> l.v, v_hat |-> l.v_hat, t |-> l.t]
       IN  IF Raises(l.gradient, st)
           THEN /\ raised' = raised \cup
                        {[key |-> p, gradient |-> l.gradient,
                          parameter |-> l.parameter]}
                /\ UNCHANGED <<parameters, state, trace>>
           ELSE LET r == ApplyResult(l.gradient, l.parameter, st, l.lr,
                                     beta_decay)
                IN  /\ state' = StoreState(state, p, StateOf(r))
                    /\ parameters' = [parameters EXCEPT ![p] = r.ret]
                    /\ trace' = [trace EXCEPT ![p] =
                           Append(@, CallRecord(l.gradient, l.parameter, st,
                                                l.lr, r))]
                    /\ UNCHANGED raised
    /\ pc' = [pc EXCEPT ![p] = "idle"]
    /\ locals' = [locals EXCEPT ![p] = <<>>]
    /\ UNCHANGED <<beta_decay, schedule, learning_rate, step>>

Next ==
    \/ \E p \in DOMAIN parameters : init_single(p)
    \/ \E p \in DOMAIN parameters : \E g \in Gradients : apply_single(p, g)
    \/ UpdateSchedule

Spec == Init /\ [][Next]_vars

NextPar ==
    \/ \E p \in DOMAIN parameters : init_single(p)
    \/ \E p \in DOMAIN parameters : \E g \in ParGradients : apply_begin(p, g)
    \/ \E p \in DOMAIN parameters : apply_finish(p)
    \/ UpdateSchedule

SpecPar == InitPar /\ [][NextPar]_vars

----------------------------------------------------------------------------
(* Properties.                                                             *)

IsZero(x) == \A i \in 1..Len(x) : x[i] = 0
GEq(a, b) == \A i \in 1..BLen(a, b) : At(a, i) >= At(b, i)
Completed ==
    UNION {{<<p, i>> : i \in 1..Len(trace[p])} : p \in DOMAIN trace}
CallOf(c) == trace[c[1]][c[2]]
Fresh(st) == IsZero(st.m) /\ IsZero(st.v) /\ IsZero(st.v_hat) /\ st.t = 1

\* C1: every completed apply stores m' = b1_eff*m + (1-b1_eff)*gradient,
\* v' = beta2*v + (1-beta2)*gradient^2, v_hat' = max(v_hat, v') and t' = t+1,
\* and returns parameter - lr*(m'/(sqrt(v_hat')+eps)) computed from the new
\* m' and v_hat'; from the init state with gradient 2 it stores m' = 0.2,
\* v' = 0.004 and v_hat' = 0.004.
C1_UpdateRule ==
    \A c \in Completed :
        LET e == CallOf(c)
            b == IF beta_decay THEN Beta1 \div e.pre.t ELSE Beta1
            n == BLen(e.pre.m, e.gradient)
        IN  /\ Len(e.post.m) = n /\ Len(e.post.v) = n
            /\ Len(e.post.v_hat) = n /\ Len(e.ret) = n
            /\ \A j \in 1..n :
                 /\ e.post.m[j] = ((b * At(e.pre.m, j)) \div One)
                        + (((One - b) * At(e.gradient, j)) \div One)
                 /\ e.post.v[j] = ((Beta2 * At(e.pre.v, j)) \div One)
                        + (((One - Beta2)
                            * ((At(e.gradient, j) * At(e.gradient, j)) \div One))
                           \div One)
                 /\ e.post.v_hat[j] =
                        (IF At(e.pre.v_hat, j) >= e.post.v[j]
                         THEN At(e.pre.v_hat, j) ELSE e.post.v[j])
                 /\ e.ret[j] = At(e.parameter, j)
                        - ((e.lr * ((e.post.m[j] * One)
                                    \div (SqrtScalar(e.post.v_hat[j]) + Eps)))
                           \div One)
            /\ e.post.t = e.pre.t + 1
            /\ (c[2] = Len(trace[c[1]])) =>
                   (state[c[1]] = e.post /\ parameters[c[1]] = e.ret)
            /\ (Fresh(e.pre) /\ e.gradient = <<2000>>) =>
                   \A j \in 1..n : /\ e.post.m[j] = 200
                                   /\ e.post.v[j] = 4
                                   /\ e.post.v_hat[j] = 4

C1_Witness ==
    \E p \in DOMAIN trace :
        /\ Len(trace[p]) >= 2
        /\ Fresh(trace[p][1].pre)
        /\ trace[p][1].gradient = <<2000>>
        /\ trace[p][1].post.m = <<200>>
        /\ trace[p][1].ret # trace[p][1].parameter
        /\ trace[p][2].post.m # trace[p][2].pre.m
        /\ trace[p][2].post.v_hat # trace[p][2].pre.v_hat

\* C2: v_hat after each apply is elementwise >= v_hat before it (the v_hat
\* left by the previous apply, or the initial one), with beta_decay on or off.
C2_VHatMonotone ==
    \A c \in Completed :
        /\ GEq(CallOf(c).post.v_hat, CallOf(c).pre.v_hat)
        /\ c[2] > 1 => CallOf(c).pre = trace[c[1]][c[2] - 1].post
        /\ c[2] = Len(trace[c[1]]) => state[c[1]] = CallOf(c).post

C2_Witness ==
    \E p \in DOMAIN state :
        /\ Len(trace[p]) >= 2
        /\ beta_decay
        /\ \E j \in 1..Len(state[p].v) :
               /\ state[p].v[j] < At(trace[p][1].post.v, j)
               /\ state[p].v_hat[j] = At(trace[p][1].post.v_hat, j)
               /\ state[p].v_hat[j] > 0

VSeen(p) == {<<0>>} \cup {trace[p][i].post.v : i \in 1..Len(trace[p])}

\* C3: in every reachable state v_hat is the elementwise maximum of all v
\* values the state has held (the initial zero and every v'), and v_hat >= v.
C3_VHatIsRunningMax ==
    \A p \in DOMAIN state :
        /\ Len(state[p].v_hat) = Len(state[p].v)
        /\ GEq(state[p].v_hat, state[p].v)
        /\ \A j \in 1..Len(state[p].v_hat) :
               /\ \A x \in VSeen(p) : state[p].v_hat[j] >= At(x, j)
               /\ \E x \in VSeen(p) : state[p].v_hat[j] = At(x, j)

C3_Witness ==
    \E p \in DOMAIN state :
        /\ Len(trace[p]) >= 2
        /\ \E j \in 1..Len(state[p].v) :
               /\ state[p].v_hat[j] > state[p].v[j]
               /\ state[p].v_hat[j] = At(trace[p][1].post.v, j)

\* C4: t is 1 after init and grows by exactly 1 on every completed apply,
\* with beta_decay on or off: after n applies t = 1 + n.
C4_StepCounter ==
    \A p \in DOMAIN state :
        /\ state[p].t = 1 + Len(trace[p])
        /\ \A i \in 1..Len(trace[p]) :
               trace[p][i].pre.t = i /\ trace[p][i].post.t = i + 1

C4_Witness ==
    \E p \in DOMAIN state :
        beta_decay /\ Len(trace[p]) = 2 /\ state[p].t = 3

\* C5: with beta_decay the k-th completed apply uses b1_eff = beta1 / k, taken
\* from the configured beta1 (0.9, then 0.45); without it every call uses
\* beta1.
C5_EffectiveBeta1 ==
    \A c \in Completed :
        /\ CallOf(c).b1 = (IF beta_decay THEN Beta1 \div c[2] ELSE Beta1)
        /\ (beta_decay /\ c[2] = 1) => CallOf(c).b1 = 900
        /\ (beta_decay /\ c[2] = 2) => CallOf(c).b1 = 450

C5_Witness ==
    \E p \in DOMAIN trace :
        /\ beta_decay
        /\ Len(trace[p]) >= 2
        /\ trace[p][1].b1 = 900
        /\ trace[p][2].b1 = 450
        /\ ~IsZero(trace[p][1].post.m)

ZeroRun(p) ==
    \A i \in 1..Len(trace[p]) :
        /\ IsZero(trace[p][i].gradient)
        /\ Len(trace[p][i].gradient) = Len(trace[p][i].parameter)

\* C6: without beta_decay, after any number of applies of a zero gradient (of
\* the parameter's shape) from a fresh state, m and v_hat are zero and every
\* call returned its input parameter.
C6_ZeroGradientFixedPoint ==
    \A p \in DOMAIN state :
        (~beta_decay /\ ZeroRun(p)) =>
            /\ IsZero(state[p].m)
            /\ IsZero(state[p].v_hat)
            /\ \A i \in 1..Len(trace[p]) :
                   /\ trace[p][i].ret = trace[p][i].parameter
                   /\ IsZero(trace[p][i].post.m)
                   /\ IsZero(trace[p][i].post.v_hat)
            /\ Len(trace[p]) > 0 => parameters[p] = trace[p][1].parameter

C6_Witness ==
    \E p \in DOMAIN state :
        /\ ~beta_decay
        /\ ZeroRun(p)
        /\ Len(trace[p]) >= 2
        /\ state[p].t = 1 + Len(trace[p])
        /\ parameters[p] = trace[p][1].parameter

SameInputs(c, d) ==
    /\ c.gradient = d.gradient
    /\ c.parameter = d.parameter
    /\ c.pre = d.pre
SameOutputs(c, d) == c.ret = d.ret /\ c.post = d.post

\* C7 as stated: two applies given equal gradient, parameter and state yield
\* equal new parameter and new state, whatever learning rate the optimizer
\* currently stores and however many calls were made before.
C7_PureInThreeInputs ==
    \A c, d \in Completed :
        SameInputs(CallOf(c), CallOf(d)) => SameOutputs(CallOf(c), CallOf(d))

\* C7 amended: two applies given equal gradient, parameter and state, made
\* while the optimizer stores the same learning rate, yield equal new
\* parameter and new state, however many calls were made before.
C7_PureGivenLearningRate ==
    \A c, d \in Completed :
        (SameInputs(CallOf(c), CallOf(d)) /\ CallOf(c).lr = CallOf(d).lr)
            => SameOutputs(CallOf(c), CallOf(d))

C7_Witness ==
    \E c, d \in Completed :
        /\ c[1] # d[1]
        /\ SameInputs(CallOf(c), CallOf(d))
        /\ CallOf(c).lr = CallOf(d).lr
        /\ CallOf(c).step # CallOf(d).step
        /\ ~IsZero(CallOf(c).gradient)
        /\ beta_decay
        /\ schedule # "constant"
        /\ SameOutputs(CallOf(c), CallOf(d))

\* C8 as stated: an apply whose gradient shape differs from the parameter's
\* never completes (it fails instead of broadcasting), and a failed apply
\* leaves the parameter and the state as they were.
C8_MismatchFailsCleanly ==
    [][/\ \A p \in DOMAIN trace' : \A i \in 1..Len(trace'[p]) :
              Len(trace'[p][i].gradient) = Len(trace'[p][i].parameter)
       /\ raised' # raised => (state' = state /\ parameters' = parameters)
      ]_vars

\* C9: an apply for one parameter leaves the state and value of every other
\* parameter unchanged, and under any interleaving of the reads and writes of
\* applies for different parameters each apply stores and returns what it
\* would when run alone on the parameter's current state.
C9_PerParameterIndependence ==
    [][\A p \in DOMAIN pc :
          (pc[p] = "loaded" /\ pc'[p] = "idle") =>
              /\ \A q \in DOMAIN state \ {p} :
                     /\ state'[q] = state[q]
                     /\ parameters'[q] = parameters[q]
                     /\ trace'[q] = trace[q]
              /\ LET r == ApplyResult(locals[p][1].gradient, parameters[p],
                                      state[p], learning_rate, beta_decay)
                 IN  /\ state'[p].m = r.m /\ state'[p].v = r.v
                     /\ state'[p].v_hat = r.v_hat /\ state'[p].t = r.t
                     /\ parameters'[p] = r.ret
      ]_vars

C9_Witness ==
    /\ \A p \in DOMAIN pc : pc[p] = "loaded" /\ Len(trace[p]) >= 1
    /\ \E p, q \in DOMAIN pc :
           /\ p # q
           /\ locals[p][1].gradient # locals[q][1].gradient
           /\ state[p] # state[q]
           /\ locals[p][1].t = state[p].t

Consecutive == {c \in Completed : c[2] > 1}
Before(c) == trace[c[1]][c[2] - 1]

\* C10 as stated: from one apply to the next the denominator
\* sqrt(v_hat') + eps never shrinks and the effective step size
\* lr / (sqrt(v_hat') + eps) never grows.
C10_StepSizeNonIncreasing ==
    \A c \in Consecutive :
        /\ GEq(CallOf(c).denom, Before(c).denom)
        /\ GEq(Before(c).stepsize, CallOf(c).stepsize)

\* C10 amended: from one apply to the next the denominator never shrinks, and
\* the effective step size never grows provided the learning rate of the later
\* call is not larger than that of the earlier one.
C10_DenominatorNonDecreasing ==
    \A c \in Consecutive :
        /\ GEq(CallOf(c).denom, Before(c).denom)
        /\ \A j \in 1..Len(CallOf(c).denom) :
               CallOf(c).denom[j] = SqrtScalar(CallOf(c).post.v_hat[j]) + Eps
        /\ CallOf(c).lr <= Before(c).lr =>
               GEq(Before(c).stepsize, CallOf(c).stepsize)

C10_Witness ==
    \E c \in Consecutive :
        /\ CallOf(c).lr = Before(c).lr
        /\ CallOf(c).post.v # CallOf(c).post.v_hat
        /\ \E j \in 1..Len(CallOf(c).denom) :
               /\ CallOf(c).denom[j] > At(Before(c).denom, j)
               /\ CallOf(c).stepsize[j] < At(Before(c).stepsize, j)

====
